---- MODULE Spec2Model ----
(***************************************************************************)
(* AVL-trie hybrid of examples/plp-happiness/pheno_happiness/main.c        *)
(* (lines 1-266): a trie whose child sets are AVL trees keyed by one       *)
(* character, with a Phenotype payload on terminal nodes.                  *)
(*                                                                         *)
(* The C heap is modelled explicitly: every malloc returns a fresh address *)
(* (or NULL when the allocator refuses the request), every free is logged. *)
(* Each API call of the driver (patrie_insert, patrie_lookup,              *)
(* patrie_enumerate, trie_free) is one action.                             *)
(***************************************************************************)
EXTENDS Integers, Sequences, FiniteSets, TLC

\* ----------------------------------------------------------------- bounds
NSym      == 2      \* symbols of the alphabet are 1..NSym (compared as chars)
MaxKeyLen == 2      \* longest key the driver passes
MaxOps    == 3      \* inserts and lookups the driver makes
MaxEnums  == 1      \* enumerations the driver makes before trie_free
NAvlSym   == 6      \* SpecAVL: one-symbol keys are <<1>> .. <<NAvlSym>>
MaxAvlOps == 6      \* SpecAVL: inserts the driver makes
NWideSym  == 3      \* SpecWide: symbols are 1..NWideSym
MaxWideOps == 3     \* SpecWide: inserts and lookups the driver makes
MaxWideEnums == 2   \* SpecWide: enumerations the driver makes before trie_free

\* ----------------------------------------------------- program constants
NULL      == 0
InitCap   == 64     \* first capacity of the enumeration buffer
NUL       == 0      \* string terminator '\0'

\* ------------------------------------------------------------ input sets
Sym    == 1..NSym
RECURSIVE SeqsUpTo(_)
SeqsUpTo(n) == IF n = 0 THEN {<<>>}
               ELSE LET S == SeqsUpTo(n - 1)
                    IN  S \cup {Append(s, c) : s \in {t \in S : Len(t) = n - 1}, c \in Sym}
Keys   == SeqsUpTo(MaxKeyLen)
NoText == "(null)"                       \* a NULL const char *meta
\* The (score, qual, meta) triples the driver inserts: main's first two,
\* and the second without a text.  Scores are in hundredths.
Payloads == {[score |-> 72, qual |-> 3, meta |-> "root concept"],
             [score |-> 85, qual |-> 8, meta |-> "value metric"],
             [score |-> 85, qual |-> 8, meta |-> NoText]}

VARIABLES
    tn,      \* TrieNode address -> [terminal, p, children]
    avl,     \* AVLChild address -> [key, child, height, left, right]
    ph,      \* Phenotype address -> [score, visits, qual, meta]
    str,     \* text address -> the copied text
    live,    \* addresses allocated and not yet freed
    next,    \* next fresh address
    freed,   \* addresses passed to free(), in call order
    root,    \* the driver's root pointer
    pc,      \* "run" | "exited" | "crashed" | "corrupt" | "destroyed"
    hist     \* the API calls made so far, with their arguments and results

vars == <<tn, avl, ph, str, live, next, freed, root, pc, hist>>

\* ------------------------------------------------------------------ heap
\* The memory a call works on: the heap variables plus the call's own
\* locals (r: last returned pointer, status, allocation requests made).
\* Intermediate memories are passed as operator parameters; the local
\* operators of a definition are the steps that follow a call in the C code.
Mem(failAt) ==
    [tn |-> tn, avl |-> avl, ph |-> ph, str |-> str, live |-> live,
     next |-> next, freed |-> freed,
     req |-> 0, failAt |-> failAt, status |-> "ok", r |-> NULL,
     buf |-> NULL, cap |-> 0, len |-> 0, bytes |-> <<>>, out |-> <<>>]

\* malloc: the failAt-th request of the call is refused (returns NULL).
malloc(m) ==
    IF m.req + 1 = m.failAt
    THEN [m EXCEPT !.req = @ + 1, !.r = NULL]
    ELSE [m EXCEPT !.req = @ + 1, !.r = m.next, !.next = @ + 1,
                   !.live = @ \cup {m.next}]

\* free(NULL) is a no-op; freeing an address that is not live is a fault.
free(m, a) ==
    IF a = NULL THEN m
    ELSE [m EXCEPT !.live = @ \ {a}, !.freed = Append(@, a),
                   !.status = IF a \in m.live THEN @ ELSE "fault"]

\* perror("malloc"); exit(1);
exit1(m) == [m EXCEPT !.status = "exit", !.r = NULL]

\* ------------------------------------------------------------------- AVL
max(a, b) == IF a > b THEN a ELSE b
height_avl(m, n) == IF n # NULL THEN m.avl[n].height ELSE 0
update_height(m, n) ==
    IF n # NULL
    THEN [m EXCEPT !.avl[n].height =
              1 + max(height_avl(m, m.avl[n].left), height_avl(m, m.avl[n].right))]
    ELSE m
balance_factor(m, n) ==
    IF n # NULL THEN height_avl(m, m.avl[n].left) - height_avl(m, m.avl[n].right)
    ELSE 0

rotate_right(m, y) ==
    LET relink(x, T2) ==
            [update_height(update_height(
                 [m EXCEPT !.avl[x].right = y, !.avl[y].left = T2], y), x)
             EXCEPT !.r = x]
    IN  relink(m.avl[y].left, m.avl[m.avl[y].left].right)

\* Mutant of rotate_left: the heights are recomputed top-down (y before x).
rotate_left_stale(m, x) ==
    LET relink(y, T2) ==
            [update_height(update_height(
                 [m EXCEPT !.avl[y].left = x, !.avl[x].right = T2], y), x)
             EXCEPT !.r = y]
    IN  relink(m.avl[x].right, m.avl[m.avl[x].right].left)

rotate_left(m, x) ==
    LET relink(y, T2) ==
            [update_height(update_height(
                 [m EXCEPT !.avl[y].left = x, !.avl[x].right = T2], x), y)
             EXCEPT !.r = y]
    IN  relink(m.avl[x].right, m.avl[m.avl[x].right].left)

\* Lines 77-84: recompute the height, then the four rotation cases.
avl_rebalance(m0, rt, key) ==
    LET left_rotated(a)  == rotate_right([a EXCEPT !.avl[rt].left = a.r], rt)
        right_rotated(a) == rotate_left([a EXCEPT !.avl[rt].right = a.r], rt)
        cases(m, bf, l, r) ==
            IF bf > 1 /\ key < m.avl[l].key THEN rotate_right(m, rt)
            ELSE IF bf < -1 /\ key > m.avl[r].key THEN rotate_left(m, rt)
            ELSE IF bf > 1 /\ key > m.avl[l].key THEN left_rotated(rotate_left(m, l))
            ELSE IF bf < -1 /\ key < m.avl[r].key THEN right_rotated(rotate_right(m, r))
            ELSE [m EXCEPT !.r = rt]
        updated(m) == cases(m, balance_factor(m, rt), m.avl[rt].left, m.avl[rt].right)
    IN  updated(update_height(m0, rt))

\* Returns the memory with r = the new root of the child set.
RECURSIVE avl_insert_child(_, _, _, _)
avl_insert_child(m, rt, key, child) ==
    LET new_entry(a) ==
            IF a.r = NULL THEN exit1(a)
            ELSE [a EXCEPT !.avl = (a.r :> [key |-> key, child |-> child, height |-> 1,
                                            left |-> NULL, right |-> NULL]) @@ @]
        went_left(a) ==
            IF a.status # "ok" THEN a
            ELSE avl_rebalance([a EXCEPT !.avl[rt].left = a.r], rt, key)
        went_right(a) ==
            IF a.status # "ok" THEN a
            ELSE avl_rebalance([a EXCEPT !.avl[rt].right = a.r], rt, key)
    IN  IF rt = NULL THEN new_entry(malloc(m))
        ELSE IF key < m.avl[rt].key
        THEN went_left(avl_insert_child(m, m.avl[rt].left, key, child))
        ELSE IF key > m.avl[rt].key
        THEN went_right(avl_insert_child(m, m.avl[rt].right, key, child))
        ELSE [m EXCEPT !.avl[rt].child = child, !.r = rt]

\* Returns the entry's address, or NULL.
RECURSIVE avl_find_child(_, _, _)
avl_find_child(m, rt, key) ==
    IF rt = NULL THEN NULL
    ELSE IF key = m.avl[rt].key THEN rt
    ELSE avl_find_child(m, IF key < m.avl[rt].key THEN m.avl[rt].left
                           ELSE m.avl[rt].right, key)

\* ------------------------------------------------------ trie + phenotype
\* Mutant of trie_node_new: the node starts out marked terminal.
trie_node_new_terminal(m) ==
    LET init(a) ==
            IF a.r = NULL THEN exit1(a)
            ELSE [a EXCEPT !.tn = (a.r :> [terminal |-> 1, p |-> NULL,
                                           children |-> NULL]) @@ @]
    IN  init(malloc(m))

trie_node_new(m) ==
    LET init(a) ==
            IF a.r = NULL THEN exit1(a)
            ELSE [a EXCEPT !.tn = (a.r :> [terminal |-> 0, p |-> NULL,
                                           children |-> NULL]) @@ @]
    IN  init(malloc(m))

\* s = NoText stands for a NULL argument.  A refused malloc yields NULL.
my_strdup(m, s) ==
    LET copy(a) == IF a.r # NULL THEN [a EXCEPT !.str = (a.r :> s) @@ @] ELSE a
    IN  IF s = NoText THEN [m EXCEPT !.r = NULL] ELSE copy(malloc(m))

phenotype_new(m, score, qual, meta) ==
    LET fill(p, b) ==
            [b EXCEPT !.ph = (p :> [score |-> score, visits |-> 0, qual |-> qual,
                                    meta |-> b.r]) @@ @,
                      !.r = p]
        init(a) ==
            IF a.r = NULL THEN exit1(a)
            ELSE fill(a.r, IF meta # NoText THEN my_strdup(a, meta)
                           ELSE [a EXCEPT !.r = NULL])
    IN  init(malloc(m))

\* Mutant of phenotype_free: the text is not released.
phenotype_free_leak(m, p) ==
    IF p = NULL THEN m ELSE free(m, p)

phenotype_free(m, p) ==
    IF p = NULL THEN m
    ELSE free(free(m, m.ph[p].meta), p)

\* Mutant of patrie_insert_walk: a node is created for every symbol, whether
\* or not the child set already has an entry for it.
RECURSIVE patrie_insert_walk_always(_, _, _, _)
patrie_insert_walk_always(m, cur, key, i) ==
    LET refound(c, ac) == patrie_insert_walk_always(c, c.avl[ac].child, key, i + 1)
        linked(c) == refound(c, avl_find_child(c, c.tn[cur].children, key[i]))
        inserted(b) ==
            IF b.status # "ok" THEN b
            ELSE linked([b EXCEPT !.tn[cur].children = b.r])
        created(a) ==
            IF a.status # "ok" THEN a
            ELSE inserted(avl_insert_child(a, a.tn[cur].children, key[i], a.r))
    IN  IF i > Len(key) THEN [m EXCEPT !.r = cur]
        ELSE created(trie_node_new(m))

\* Lines 134-144: the walk that creates the missing nodes; r = the final node.
RECURSIVE patrie_insert_walk(_, _, _, _)
patrie_insert_walk(m, cur, key, i) ==
    LET refound(c, ac) == patrie_insert_walk(c, c.avl[ac].child, key, i + 1)
        linked(c) == refound(c, avl_find_child(c, c.tn[cur].children, key[i]))
        inserted(b) ==
            IF b.status # "ok" THEN b
            ELSE linked([b EXCEPT !.tn[cur].children = b.r])
        created(a) ==
            IF a.status # "ok" THEN a
            ELSE inserted(avl_insert_child(a, a.tn[cur].children, key[i], a.r))
        looked(ac) ==
            IF ac # NULL THEN patrie_insert_walk(m, m.avl[ac].child, key, i + 1)
            ELSE created(trie_node_new(m))
    IN  IF i > Len(key) THEN [m EXCEPT !.r = cur]
        ELSE looked(avl_find_child(m, m.tn[cur].children, key[i]))

patrie_insert(m, rt, key, score, qual, meta) ==
    LET stored(p, d) == [d EXCEPT !.ph[p].meta = d.r]
        released(p, c) ==
            stored(p, IF meta # NoText THEN my_strdup(c, meta)
                      ELSE [c EXCEPT !.r = NULL])
        overwritten(p, b) == released(p, free(b, b.ph[p].meta))
        attached(cur, b) ==
            IF b.status # "ok" THEN b ELSE [b EXCEPT !.tn[cur].p = b.r]
        marked(cur, a) ==
            IF a.tn[cur].p = NULL
            THEN attached(cur, phenotype_new(a, score, qual, meta))
            ELSE overwritten(a.tn[cur].p,
                             [a EXCEPT !.ph[a.tn[cur].p].score = score,
                                       !.ph[a.tn[cur].p].qual = qual])
        walked(w) ==
            IF w.status # "ok" THEN w
            ELSE marked(w.r, [w EXCEPT !.tn[w.r].terminal = 1])
    IN  walked(patrie_insert_walk(m, rt, key, 1))

\* Mutant of patrie_lookup_walk: a missing child ends the walk at the node
\* reached so far instead of failing.
RECURSIVE patrie_lookup_walk_prefix(_, _, _, _)
patrie_lookup_walk_prefix(m, cur, key, i) ==
    LET looked(ac) ==
            IF ac = NULL THEN [m EXCEPT !.r = cur]
            ELSE patrie_lookup_walk_prefix(m, m.avl[ac].child, key, i + 1)
    IN  IF i > Len(key) THEN [m EXCEPT !.r = cur]
        ELSE looked(avl_find_child(m, m.tn[cur].children, key[i]))

\* Lines 156-161: r = the node the key leads to, or status "miss".
RECURSIVE patrie_lookup_walk(_, _, _, _)
patrie_lookup_walk(m, cur, key, i) ==
    LET looked(ac) ==
            IF ac = NULL THEN [m EXCEPT !.r = NULL, !.status = "miss"]
            ELSE patrie_lookup_walk(m, m.avl[ac].child, key, i + 1)
    IN  IF i > Len(key) THEN [m EXCEPT !.r = cur]
        ELSE looked(avl_find_child(m, m.tn[cur].children, key[i]))

\* Mutant of patrie_lookup: a hit increments the visits of every payload.
patrie_lookup_all(m, rt, key) ==
    LET hit(w, p) ==
            IF p = NULL THEN [w EXCEPT !.status = "fault", !.r = NULL]
            ELSE [w EXCEPT !.ph = [q \in DOMAIN w.ph |->
                                      [w.ph[q] EXCEPT !.visits = @ + 1]],
                           !.r = p]
        walked(w) ==
            IF w.status = "miss" THEN [w EXCEPT !.status = "ok", !.r = NULL]
            ELSE IF w.r # NULL /\ w.tn[w.r].terminal # 0 THEN hit(w, w.tn[w.r].p)
            ELSE [w EXCEPT !.r = NULL]
    IN  walked(patrie_lookup_walk(m, rt, key, 1))

\* Mutant of patrie_lookup: visits is not incremented.
patrie_lookup_noinc(m, rt, key) ==
    LET hit(w, p) ==
            IF p = NULL THEN [w EXCEPT !.status = "fault", !.r = NULL]
            ELSE [w EXCEPT !.r = p]
        walked(w) ==
            IF w.status = "miss" THEN [w EXCEPT !.status = "ok", !.r = NULL]
            ELSE IF w.r # NULL /\ w.tn[w.r].terminal # 0 THEN hit(w, w.tn[w.r].p)
            ELSE [w EXCEPT !.r = NULL]
    IN  walked(patrie_lookup_walk(m, rt, key, 1))

\* r = the returned Phenotype pointer (NULL: not found).  Dereferencing a
\* NULL cur->p is an invalid access.
patrie_lookup(m, rt, key) ==
    LET hit(w, p) ==
            IF p = NULL THEN [w EXCEPT !.status = "fault", !.r = NULL]
            ELSE [w EXCEPT !.ph[p].visits = @ + 1, !.r = p]
        walked(w) ==
            IF w.status = "miss" THEN [w EXCEPT !.status = "ok", !.r = NULL]
            ELSE IF w.r # NULL /\ w.tn[w.r].terminal # 0 THEN hit(w, w.tn[w.r].p)
            ELSE [w EXCEPT !.r = NULL]
    IN  walked(patrie_lookup_walk(m, rt, key, 1))

\* ----------------------------------------------------------- enumeration
\* A dereference of a block that is not live is an invalid access.
deref(m, a) == IF a \in m.live THEN m ELSE [m EXCEPT !.status = "fault"]

\* realloc: a refused request returns NULL and leaves the old block alone;
\* a granted one moves the block (realloc releases the old address).
realloc(m, p, n) ==
    LET moved(a) == IF a.r = NULL THEN a ELSE [free(a, p) EXCEPT !.r = a.r]
    IN  moved(malloc(m))

RECURSIVE grow_cap(_, _)
grow_cap(nc, need) == IF nc <= need THEN grow_cap(nc * 2, need) ELSE nc

ensure_buf(m, need) ==
    LET set(nc, a) == [a EXCEPT !.buf = a.r, !.cap = nc]
        grown(nc) == set(nc, realloc(m, m.buf, nc))
    IN  IF m.cap <= need
        THEN grown(grow_cap(IF m.cap = 0 THEN InitCap ELSE m.cap * 2, need))
        ELSE m

\* ec->buf[i] = c: a write through a NULL buffer or past its capacity is
\* an invalid access.
buf_store(m, i, c) ==
    IF m.buf = NULL \/ m.buf \notin m.live \/ i >= m.cap
    THEN [m EXCEPT !.status = "fault"]
    ELSE [m EXCEPT !.bytes = (i :> c) @@ @]

\* The NUL-terminated string the callback reads at ec->buf.
RECURSIVE cstring(_, _)
cstring(bytes, i) ==
    IF i \notin DOMAIN bytes \/ bytes[i] = NUL THEN <<>>
    ELSE <<bytes[i]>> \o cstring(bytes, i + 1)

\* What a Phenotype pointer shows to the code that reads through it.
view(m, p) ==
    IF p = NULL
    THEN [found |-> FALSE, score |-> 0, visits |-> 0, qual |-> 0, meta |-> NoText]
    ELSE [found |-> TRUE, score |-> m.ph[p].score, visits |-> m.ph[p].visits,
          qual |-> m.ph[p].qual,
          meta |-> IF m.ph[p].meta = NULL THEN NoText ELSE m.str[m.ph[p].meta]]

\* The callback: record the token and the payload fields it is handed.
print_token(m, p) ==
    [m EXCEPT !.out = Append(@, [token |-> cstring(m.bytes, 0), p |-> p,
                                 pay |-> view(m, p)])]

RECURSIVE trie_dfs(_, _)
RECURSIVE avl_inorder(_, _, _)
RECURSIVE visit_free_fn(_, _, _)

\* Mutant of visit_tmp_fn: the symbol is not popped after the recursion.
visit_tmp_fn_nopop(m, key, child) ==
    LET pushed(s) ==
            IF s.status # "ok" THEN s
            ELSE trie_dfs([s EXCEPT !.len = @ + 1], child)
        ensured(e) == pushed(buf_store(e, e.len, key))
    IN  ensured(ensure_buf(m, m.len + 1))

visit_tmp_fn(m, key, child) ==
    LET popped(d) == IF d.status # "ok" THEN d ELSE [d EXCEPT !.len = @ - 1]
        pushed(s) ==
            IF s.status # "ok" THEN s
            ELSE popped(trie_dfs([s EXCEPT !.len = @ + 1], child))
        ensured(e) == pushed(buf_store(e, e.len, key))
    IN  ensured(ensure_buf(m, m.len + 1))

\* Mutant of trie_dfs: emitting a token counts as a visit of its payload.
trie_dfs_counting(m, node) ==
    LET descend(a) ==
            IF a.status # "ok" THEN a
            ELSE avl_inorder(a, a.tn[node].children, "visit_tmp_fn")
        terminated(s) ==
            IF s.status # "ok" THEN s
            ELSE print_token([s EXCEPT !.ph[s.tn[node].p].visits = @ + 1],
                             s.tn[node].p)
        ensured(e) == terminated(buf_store(e, e.len, NUL))
    IN  IF node = NULL THEN m
        ELSE IF m.tn[node].terminal # 0
             THEN descend(ensured(ensure_buf(m, m.len + 1)))
             ELSE descend(m)

\* Mutant of trie_dfs: the node's own token is emitted after its children.
trie_dfs_postorder(m, node) ==
    LET terminated(s) ==
            IF s.status # "ok" THEN s ELSE print_token(s, s.tn[node].p)
        ensured(e) == terminated(buf_store(e, e.len, NUL))
        emitted(a) ==
            IF a.status # "ok" \/ a.tn[node].terminal = 0 THEN a
            ELSE ensured(ensure_buf(a, a.len + 1))
    IN  IF node = NULL THEN m
        ELSE emitted(avl_inorder(m, m.tn[node].children, "visit_tmp_fn"))

trie_dfs(m, node) ==
    LET descend(a) ==
            IF a.status # "ok" THEN a
            ELSE avl_inorder(a, a.tn[node].children, "visit_tmp_fn")
        terminated(s) ==
            IF s.status # "ok" THEN s ELSE print_token(s, s.tn[node].p)
        ensured(e) == terminated(buf_store(e, e.len, NUL))
    IN  IF node = NULL THEN m
        ELSE IF m.tn[node].terminal # 0
             THEN descend(ensured(ensure_buf(m, m.len + 1)))
             ELSE descend(m)

\* Mutant of avl_inorder: the right subtree is visited before the left one.
avl_inorder_reversed(m, rt, fn) ==
    LET visited(b) ==
            IF b.status # "ok" THEN b
            ELSE avl_inorder(deref(b, rt), b.avl[rt].left, fn)
        right_done(a) ==
            visited(IF a.status # "ok" THEN a
                    ELSE IF fn = "visit_tmp_fn"
                         THEN visit_tmp_fn(a, a.avl[rt].key, a.avl[rt].child)
                         ELSE visit_free_fn(a, a.avl[rt].key, a.avl[rt].child))
    IN  IF rt = NULL \/ m.status # "ok" THEN m
        ELSE right_done(avl_inorder(deref(m, rt), m.avl[rt].right, fn))

\* fn names the visitor: "visit_tmp_fn" or "visit_free_fn".
avl_inorder(m, rt, fn) ==
    LET visited(b) ==
            IF b.status # "ok" THEN b
            ELSE avl_inorder(deref(b, rt), b.avl[rt].right, fn)
        left_done(a) ==
            visited(IF a.status # "ok" THEN a
                    ELSE IF fn = "visit_tmp_fn"
                         THEN visit_tmp_fn(a, a.avl[rt].key, a.avl[rt].child)
                         ELSE visit_free_fn(a, a.avl[rt].key, a.avl[rt].child))
    IN  IF rt = NULL \/ m.status # "ok" THEN m
        ELSE left_done(avl_inorder(deref(m, rt), m.avl[rt].left, fn))

patrie_enumerate(m, rt) ==
    LET done(d) == IF d.status # "ok" THEN d ELSE free(d, d.buf)
    IN  done(trie_dfs(m, rt))

\* ------------------------------------------------------------------ free
RECURSIVE avl_free(_, _)
avl_free(m, rt) ==
    LET right_done(b) == free(b, rt)
        left_done(a) == right_done(avl_free(deref(a, rt), a.avl[rt].right))
    IN  IF rt = NULL \/ m.status # "ok" THEN m
        ELSE left_done(avl_free(deref(m, rt), m.avl[rt].left))

\* Mutant of visit_free_fn: the payload is released before the child-set
\* entries.
visit_free_fn_payload_first(m, key, child) ==
    LET released(d) == free(d, child)
        entries_freed(b) ==
            released(avl_free(deref(b, child), b.tn[child].children))
        payload_freed(a) ==
            entries_freed(IF a.tn[child].p # NULL
                          THEN phenotype_free(a, a.tn[child].p) ELSE a)
    IN  IF child # NULL
        THEN payload_freed(avl_inorder(deref(m, child), m.tn[child].children,
                                       "visit_free_fn"))
        ELSE m

visit_free_fn(m, key, child) ==
    LET released(d) == free(d, child)
        entries_freed(b) ==
            released(IF b.tn[child].p # NULL
                     THEN phenotype_free(b, b.tn[child].p) ELSE b)
        children_freed(a) ==
            entries_freed(avl_free(deref(a, child), a.tn[child].children))
    IN  IF child # NULL
        THEN children_freed(avl_inorder(deref(m, child), m.tn[child].children,
                                        "visit_free_fn"))
        ELSE m

trie_free(m, node) ==
    LET released(d) == free(d, node)
        entries_freed(b) ==
            released(IF b.tn[node].p # NULL
                     THEN phenotype_free(b, b.tn[node].p) ELSE b)
        children_freed(a) ==
            entries_freed(avl_free(deref(a, node), a.tn[node].children))
    IN  IF node = NULL THEN m
        ELSE children_freed(avl_inorder(deref(m, node), m.tn[node].children,
                                        "visit_free_fn"))

\* ---------------------------------------------------------------- driver
\* One record per API call: its arguments, how it ended (st: "ok" returned,
\* "exit" exit(1), "fault" invalid memory access), whether the allocator
\* refused one of its requests (oom), the payload the returned pointer shows
\* (res) and the callback's records (emit).
NoRes == [found |-> FALSE, score |-> 0, visits |-> 0, qual |-> 0, meta |-> NoText]
Call(op, key, score, qual, meta, m, res, emit) ==
    [op |-> op, key |-> key, score |-> score, qual |-> qual, meta |-> meta,
     st |-> m.status, oom |-> (m.failAt > 0 /\ m.req >= m.failAt),
     res |-> res, emit |-> emit]

\* The outcomes of a write through an invalid pointer: the process is
\* killed, or it goes on over corrupted memory (nothing is modelled after
\* either).
UBOutcomes == {"crashed", "corrupt"}

\* Store the heap a call leaves behind.
Commit(m) ==
    /\ tn' = m.tn /\ avl' = m.avl /\ ph' = m.ph /\ str' = m.str
    /\ live' = m.live /\ next' = m.next /\ freed' = m.freed

\* main, line 252: TrieNode *root = trie_node_new();
Init ==
    /\ tn = (1 :> [terminal |-> 0, p |-> NULL, children |-> NULL])
    /\ avl = <<>> /\ ph = <<>> /\ str = <<>>
    /\ live = {1} /\ next = 2 /\ freed = <<>>
    /\ root = 1 /\ pc = "run" /\ hist = <<>>

\* Calls of one kind made so far.
CountOps(op) == Cardinality({i \in 1..Len(hist) : hist[i].op = op})

\* The call has run on memory m: store the heap, log the call, and stop the
\* process if the call did not return (onFault: where a fault leads).
Return(m, call, onFault, after) ==
    /\ Commit(m)
    /\ pc' = IF m.status = "exit" THEN "exited"
             ELSE IF m.status = "fault" THEN onFault ELSE after
    /\ hist' = Append(hist, call)
    /\ UNCHANGED root

InsertCall(m, key, score, qual, meta) ==
    Return(m, Call("insert", key, score, qual, meta, m, NoRes, <<>>), "crashed", "run")

Insert(key, score, qual, meta, failAt) ==
    /\ pc = "run"
    /\ InsertCall(patrie_insert(Mem(failAt), root, key, score, qual, meta),
                  key, score, qual, meta)

LookupCall(m, key) ==
    Return(m, Call("lookup", key, 0, 0, NoText, m, view(m, m.r), <<>>), "crashed", "run")

Lookup(key) ==
    /\ pc = "run"
    /\ LookupCall(patrie_lookup(Mem(0), root, key), key)

EnumerateCall(m, ub) ==
    Return(m, Call("enumerate", <<>>, 0, 0, NoText, m, NoRes, m.out), ub, "run")

Enumerate(failAt, ub) ==
    /\ pc = "run"
    /\ EnumerateCall(patrie_enumerate(Mem(failAt), root), ub)

FreeCall(m) ==
    Return(m, Call("free", <<>>, 0, 0, NoText, m, NoRes, <<>>), "crashed", "destroyed")

\* main, line 264: trie_free(root); the trie is not used afterwards.
Free ==
    /\ pc = "run"
    /\ FreeCall(trie_free(Mem(0), root))

\* The driver, shaped like main (lines 251-266): inserts and lookups in any
\* order, then enumerations, then trie_free.
Mutating == CountOps("enumerate") = 0 /\ CountOps("insert") + CountOps("lookup") < MaxOps

Next ==
    \/ /\ Mutating
       /\ \E key \in Keys, pl \in Payloads :
             \E failAt \in 0..(2 * Len(key) + 2) :
                Insert(key, pl.score, pl.qual, pl.meta, failAt)
    \/ /\ Mutating
       /\ \E key \in Keys : Lookup(key)
    \/ /\ CountOps("enumerate") < MaxEnums
       /\ \E failAt \in 0..1, ub \in UBOutcomes : Enumerate(failAt, ub)
    \/ Free

Spec == Init /\ [][Next]_vars

\* A second driver that stresses one child set: it inserts one-symbol keys
\* of a larger alphabet under the root (the allocator grants every request),
\* then enumerates and frees.
NextAVL ==
    \/ /\ CountOps("enumerate") = 0 /\ CountOps("insert") < MaxAvlOps
       /\ \E c \in 1..NAvlSym : Insert(<<c>>, 72, 3, NoText, 0)
    \/ /\ CountOps("enumerate") < MaxEnums
       /\ Enumerate(0, "crashed")
    \/ Free

SpecAVL == Init /\ [][NextAVL]_vars

\* A third driver over a wider alphabet, so that child sets below any node
\* rotate while keys share prefixes: inserts (the allocator grants every
\* request) and lookups, then up to two enumerations, then trie_free.
RECURSIVE SeqsOver(_, _)
SeqsOver(A, n) == IF n = 0 THEN {<<>>}
                  ELSE LET S == SeqsOver(A, n - 1)
                       IN  S \cup {Append(s, c) : s \in {t \in S : Len(t) = n - 1}, c \in A}
WideKeys == SeqsOver(1..NWideSym, MaxKeyLen)
WidePayloads == {pl \in Payloads : pl.meta # NoText}
WideMutating ==
    CountOps("enumerate") = 0 /\ CountOps("insert") + CountOps("lookup") < MaxWideOps

NextWide ==
    \/ /\ WideMutating
       /\ \E key \in WideKeys, pl \in WidePayloads :
             Insert(key, pl.score, pl.qual, pl.meta, 0)
    \/ /\ WideMutating
       /\ \E key \in WideKeys : Lookup(key)
    \/ /\ CountOps("enumerate") < MaxWideEnums
       /\ Enumerate(0, "crashed")
    \/ Free

SpecWide == Init /\ [][NextWide]_vars

\* ================================================================ claims
\* Helpers over the call history and the heap.
IsPrefix(a, b) == Len(a) <= Len(b) /\ SubSeq(b, 1, Len(a)) = a
InsertedBefore(i, K) == \E j \in 1..(i - 1) : hist[j].op = "insert" /\ hist[j].key = K
\* Successful lookups of K among the first i calls.
FoundLookups(i, K) ==
    Cardinality({j \in 1..i : hist[j].op = "lookup" /\ hist[j].key = K /\ hist[j].res.found})

\* The node a key leads to from the root in the current heap (NULL: none).
RECURSIVE NodeAt(_, _, _)
NodeAt(cur, key, i) ==
    IF i > Len(key) THEN cur
    ELSE LET ac == avl_find_child([avl |-> avl], tn[cur].children, key[i]) IN
         IF ac = NULL THEN NULL ELSE NodeAt(avl[ac].child, key, i + 1)
\* The entries of the child set rooted at rt, as a set of addresses.
RECURSIVE Entries(_)
Entries(rt) == IF rt = NULL THEN {} ELSE {rt} \cup Entries(avl[rt].left) \cup Entries(avl[rt].right)
\* The trie nodes reachable from node n.
RECURSIVE Nodes(_)
Nodes(n) == {n} \cup UNION {Nodes(avl[e].child) : e \in Entries(tn[n].children)}

\* C1: a lookup returns a payload if and only if its key was the key of an
\* earlier insert; so a never-inserted key, and a strict prefix of an
\* inserted key that was not itself inserted, are not found.  Between calls
\* the keys that lead to a terminal node are exactly the inserted keys.
C1_LookupIffInserted ==
    /\ \A i \in 1..Len(hist) :
          hist[i].op = "lookup" =>
              (hist[i].res.found <=> InsertedBefore(i, hist[i].key))
    /\ pc = "run" =>
          \A K \in Keys :
              LET n == NodeAt(root, K, 1) IN
              (n # NULL /\ tn[n].terminal # 0) <=> InsertedBefore(Len(hist) + 1, K)

\* C1 witness: a lookup of a strict prefix of an inserted key, itself never
\* inserted, returned not-found, and a lookup of an inserted key returned
\* its payload.
C1_Witness ==
    /\ \E i \in 1..Len(hist) :
          /\ hist[i].op = "lookup" /\ ~hist[i].res.found
          /\ ~InsertedBefore(i, hist[i].key)
          /\ \E j \in 1..(i - 1) :
                /\ hist[j].op = "insert" /\ IsPrefix(hist[i].key, hist[j].key)
                /\ hist[j].key # hist[i].key
    /\ \E i \in 1..Len(hist) : hist[i].op = "lookup" /\ hist[i].res.found

\* C3: the k-th successful lookup of a key returns visits = k, whatever
\* inserts and other lookups are interleaved; and between calls the stored
\* counter of every stored key equals its number of successful lookups.
C3_MonotonicVisits ==
    /\ \A i \in 1..Len(hist) :
          (hist[i].op = "lookup" /\ hist[i].res.found) =>
              hist[i].res.visits = FoundLookups(i, hist[i].key)
    /\ pc = "run" =>
          \A K \in Keys :
              LET n == NodeAt(root, K, 1) IN
              (n # NULL /\ tn[n].p # NULL) =>
                  ph[tn[n].p].visits = FoundLookups(Len(hist), K)

\* C3 witness: the second successful lookup of a key returned visits = 2.
C3_Witness ==
    \E i \in 1..Len(hist) :
        /\ hist[i].op = "lookup" /\ hist[i].res.found /\ hist[i].res.visits = 2
        /\ FoundLookups(i, hist[i].key) = 2

\* C8: between operations every trie node has a payload if and only if it
\* is terminal.
C8_PayloadIffTerminal ==
    pc = "run" =>
        \A n \in Nodes(root) : (tn[n].p # NULL) <=> (tn[n].terminal # 0)

\* C8 witness: after a lookup, a terminal node with a payload lies below a
\* node that is neither terminal nor has a payload.
C8_Witness ==
    /\ pc = "run" /\ Len(hist) > 0 /\ hist[Len(hist)].op = "lookup"
    /\ \E n \in Nodes(root) : tn[n].terminal = 0 /\ tn[n].p = NULL /\ n # root
    /\ \E n \in Nodes(root) : tn[n].terminal # 0 /\ tn[n].p # NULL

\* C2 (as claimed): an insert that returned, followed immediately by a lookup
\* of the same key, yields a payload with exactly the inserted score, flags
\* and meta, and visits = 1 when the key was not stored before.
C2_RoundTrip ==
    \A i \in 1..(Len(hist) - 1) :
        (/\ hist[i].op = "insert" /\ hist[i].st = "ok"
         /\ hist[i + 1].op = "lookup" /\ hist[i + 1].key = hist[i].key) =>
            /\ hist[i + 1].res.found
            /\ hist[i + 1].res.score = hist[i].score
            /\ hist[i + 1].res.qual = hist[i].qual
            /\ hist[i + 1].res.meta = hist[i].meta
            /\ ~InsertedBefore(i, hist[i].key) => hist[i + 1].res.visits = 1

\* The (score, qual, meta) arguments of call i.
Triple(i) == <<hist[i].score, hist[i].qual, hist[i].meta>>

\* C4 (as claimed): after two inserts of a key with different triples, a
\* lookup returns the score, flags and meta of the second insert; and an
\* insert of a stored key leaves its visits as the lookups left them.
C4_ReplaceNotMerge ==
    /\ \A j \in 1..Len(hist), k \in 1..Len(hist) :
          (/\ j < k /\ hist[j].op = "insert" /\ hist[k].op = "lookup"
           /\ hist[k].key = hist[j].key
           /\ \E i \in 1..(j - 1) :
                 /\ hist[i].op = "insert" /\ hist[i].key = hist[j].key
                 /\ Triple(i) # Triple(j)
           /\ \A x \in (j + 1)..(k - 1) :
                 ~(hist[x].op = "insert" /\ hist[x].key = hist[j].key)) =>
              /\ hist[k].res.found
              /\ hist[k].res.score = hist[j].score
              /\ hist[k].res.qual = hist[j].qual
              /\ hist[k].res.meta = hist[j].meta
    /\ (/\ pc = "run" /\ Len(hist) > 0 /\ hist[Len(hist)].op = "insert"
        /\ InsertedBefore(Len(hist), hist[Len(hist)].key)) =>
           LET K == hist[Len(hist)].key IN
           ph[tn[NodeAt(root, K, 1)].p].visits = FoundLookups(Len(hist), K)

\* Lexicographic order of keys by symbol: a key precedes every longer key it
\* is a prefix of.
LexLess(a, b) ==
    \/ IsPrefix(a, b) /\ a # b
    \/ \E i \in 1..Len(a) :
          /\ i <= Len(b) /\ SubSeq(a, 1, i - 1) = SubSeq(b, 1, i - 1) /\ a[i] < b[i]
InsertedKeys(i) == {hist[j].key : j \in {x \in 1..(i - 1) : hist[x].op = "insert"}}

\* C5: every enumeration that returns has called the callback exactly once
\* per distinct inserted key, with the key as token and the key's current
\* payload, in strictly ascending lexicographic order (so the sequence does
\* not depend on the order of the inserts).
C5_EnumerateSorted ==
    \A i \in 1..Len(hist) :
        (hist[i].op = "enumerate" /\ hist[i].st = "ok") =>
            LET e == hist[i].emit IN
            /\ {e[x].token : x \in 1..Len(e)} = InsertedKeys(i)
            /\ \A x \in 1..(Len(e) - 1) : LexLess(e[x].token, e[x + 1].token)
            /\ (i = Len(hist) /\ pc = "run") =>
                  \A x \in 1..Len(e) :
                      LET n == NodeAt(root, e[x].token, 1) IN
                      /\ n # NULL /\ tn[n].p # NULL /\ e[x].p = tn[n].p
                      /\ e[x].pay = view([ph |-> ph, str |-> str], tn[n].p)

\* C5 witness: an enumeration emitted three keys, one a strict prefix of the
\* next, the last inserted before the first.
C5_Witness ==
    \E i \in 1..Len(hist) :
        /\ hist[i].op = "enumerate" /\ hist[i].st = "ok" /\ Len(hist[i].emit) = 3
        /\ IsPrefix(hist[i].emit[1].token, hist[i].emit[2].token)
        /\ ~IsPrefix(hist[i].emit[2].token, hist[i].emit[3].token)
        /\ hist[1].key = hist[i].emit[3].token

\* The real height of the subtree rooted at entry e.
RECURSIVE TrueHeight(_)
TrueHeight(e) ==
    IF e = NULL THEN 0
    ELSE 1 + max(TrueHeight(avl[e].left), TrueHeight(avl[e].right))

\* C6: after every insert that completes, every entry of every child set has
\* cached subtree heights that differ by at most one, and its cached height
\* is the real height of its subtree.
C6_Balanced ==
    pc = "run" =>
        \A n \in Nodes(root) : \A e \in Entries(tn[n].children) :
            LET hl == height_avl([avl |-> avl], avl[e].left)
                hr == height_avl([avl |-> avl], avl[e].right)
            IN  /\ hl - hr <= 1 /\ hr - hl <= 1
                /\ avl[e].height = TrueHeight(e)

\* C6 witness: six distinct symbols were inserted under the root, the entry
\* at the top of the child set is not the first one inserted (a rotation
\* moved it), and its height is 3.
C6_Witness ==
    /\ pc = "run" /\ Cardinality(Entries(tn[root].children)) = 6
    /\ hist[Len(hist)].op = "insert"
    /\ <<avl[tn[root].children].key>> # hist[1].key
    /\ avl[tn[root].children].height = 3

\* Occurrences of address a in the free log.
FreeCount(a) == Cardinality({i \in 1..Len(freed) : freed[i] = a})

\* C7: trie_free runs without an invalid free, and after it every block ever
\* allocated has been released exactly once and none is live.
C7_NoLeakNoDoubleFree ==
    (Len(hist) > 0 /\ hist[Len(hist)].op = "free") =>
        /\ hist[Len(hist)].st = "ok"
        /\ live = {}
        /\ \A a \in 1..(next - 1) : FreeCount(a) = 1

\* C7 witness: trie_free ran after inserts, a successful lookup and an
\* enumeration, on a trie two levels deep that holds a text.
C7_Witness ==
    /\ Len(hist) > 0 /\ hist[Len(hist)].op = "free"
    /\ \E i \in 1..Len(hist) : hist[i].op = "enumerate"
    /\ \E i \in 1..Len(hist) : hist[i].op = "lookup" /\ hist[i].res.found
    /\ \E i \in 1..Len(hist) : hist[i].op = "insert" /\ Len(hist[i].key) = 2
    /\ DOMAIN str # {}
    /\ Len(freed) >= 7

\* C9 (as claimed): an insert during which the allocator refused a request
\* terminates the process; it never returns.
C9_InsertAbortsOnOOM ==
    \A i \in 1..Len(hist) :
        (hist[i].op = "insert" /\ hist[i].oom) => hist[i].st = "exit"

\* C10 (as claimed): lookup, enumerate and trie_free always run to
\* completion without an invalid memory access, also when the allocator
\* refuses requests.
C10_NoFailure ==
    \A i \in 1..Len(hist) :
        hist[i].op \in {"lookup", "enumerate", "free"} => hist[i].st = "ok"

\* ------------------------------------------------- frame and order claims
\* The call a step has just logged.
NewCall == hist'[Len(hist')]

\* C11: the empty key is legal.  An insert of the empty key that returns
\* creates no trie node and no child-set entry, marks the root terminal and
\* leaves a payload with the given score and flags on it; a later lookup of
\* the empty key returns that payload with visits one higher than before;
\* and an enumeration that returns emits the empty token first, with the
\* root's payload.
C11_EmptyKey ==
    [][hist' # hist =>
          /\ (NewCall.op = "insert" /\ NewCall.key = <<>> /\ NewCall.st = "ok") =>
                /\ DOMAIN tn' = DOMAIN tn /\ avl' = avl
                /\ tn'[root].children = tn[root].children
                /\ tn'[root].terminal # 0 /\ tn'[root].p # NULL
                /\ ph'[tn'[root].p].score = NewCall.score
                /\ ph'[tn'[root].p].qual = NewCall.qual
          /\ (/\ NewCall.op = "lookup" /\ NewCall.key = <<>>
              /\ InsertedBefore(Len(hist) + 1, <<>>)) =>
                /\ NewCall.res.found
                /\ NewCall.res.visits = ph[tn[root].p].visits + 1
                /\ ph'[tn[root].p].visits = ph[tn[root].p].visits + 1
          /\ (/\ NewCall.op = "enumerate" /\ NewCall.st = "ok"
              /\ InsertedBefore(Len(hist) + 1, <<>>)) =>
                /\ Len(NewCall.emit) >= 1
                /\ NewCall.emit[1].token = <<>>
                /\ NewCall.emit[1].p = tn[root].p
    ]_vars

\* C11 witness: the empty key was inserted after a longer key, then looked
\* up, and an enumeration emitted it first, before the longer key.
C11_Witness ==
    /\ Len(hist) = 4
    /\ hist[1].op = "insert" /\ hist[1].key # <<>>
    /\ hist[2].op = "insert" /\ hist[2].key = <<>> /\ hist[2].st = "ok"
    /\ hist[3].op = "lookup" /\ hist[3].key = <<>> /\ hist[3].res.found
    /\ hist[4].op = "enumerate" /\ hist[4].st = "ok"
    /\ Len(hist[4].emit) = 2 /\ hist[4].emit[1].token = <<>>
    /\ tn[root].terminal # 0 /\ tn[root].p # NULL

\* C12: a lookup changes no trie node, no child-set entry, no text and no
\* allocation; a lookup that returns not-found changes no payload either,
\* and a lookup that returns a payload changes only that payload's visits,
\* by one.
C12_LookupFrame ==
    [][(hist' # hist /\ NewCall.op = "lookup") =>
          /\ tn' = tn /\ avl' = avl /\ str' = str
          /\ live' = live /\ next' = next /\ freed' = freed
          /\ ~NewCall.res.found => ph' = ph
          /\ NewCall.res.found =>
                LET n == NodeAt(root, NewCall.key, 1) IN
                /\ n # NULL /\ tn[n].p # NULL
                /\ ph' = [ph EXCEPT ![tn[n].p].visits = @ + 1]
    ]_vars

\* C12 witness: two different keys are stored with their texts, one of them
\* a prefix of the other; a lookup has found one of them, and the other's
\* visits is still 0.
C12_Witness ==
    /\ Len(hist) = 3 /\ pc = "run"
    /\ hist[1].op = "insert" /\ hist[2].op = "insert"
    /\ hist[1].key # hist[2].key /\ IsPrefix(hist[1].key, hist[2].key)
    /\ hist[3].op = "lookup" /\ hist[3].res.found /\ hist[3].res.visits = 1
    /\ \E q \in DOMAIN ph : ph[q].visits = 0 /\ ph[q].meta # NULL
    /\ \E q \in DOMAIN ph : ph[q].visits = 1 /\ ph[q].meta # NULL

\* The node a key leads to from the root in the heap (T, A) (NULL: none).
RECURSIVE NodeIn(_, _, _, _, _)
NodeIn(T, A, cur, key, i) ==
    IF i > Len(key) THEN cur
    ELSE LET ac == avl_find_child([avl |-> A], T[cur].children, key[i]) IN
         IF ac = NULL THEN NULL ELSE NodeIn(T, A, A[ac].child, key, i + 1)
\* Length of the longest prefix of K that is a path from the root.
ExistingPrefix(K) ==
    CHOOSE i \in 0..Len(K) :
        /\ NodeAt(root, SubSeq(K, 1, i), 1) # NULL
        /\ i < Len(K) => NodeAt(root, SubSeq(K, 1, i + 1), 1) = NULL

\* C13: an insert of K that returns creates exactly one trie node and one
\* child-set entry per symbol of K beyond the longest prefix of K that was
\* already a path, and these are the nodes K's path now ends with; it frees
\* no existing node or entry and keeps the symbol and the child of every
\* existing entry; and every other key leads to the same node as before,
\* with the same terminal flag, payload and text (a key that led nowhere
\* leads nowhere or to a new node that is not terminal and has no payload).
C13_InsertFrame ==
    [][(hist' # hist /\ NewCall.op = "insert" /\ NewCall.st = "ok") =>
          LET K == NewCall.key
              had == ExistingPrefix(K)
          IN  /\ DOMAIN tn \subseteq DOMAIN tn' /\ DOMAIN avl \subseteq DOMAIN avl'
              /\ Cardinality(DOMAIN tn' \ DOMAIN tn) = Len(K) - had
              /\ Cardinality(DOMAIN avl' \ DOMAIN avl) = Len(K) - had
              /\ \A i \in 1..Len(K) :
                    LET n == NodeIn(tn', avl', root, SubSeq(K, 1, i), 1) IN
                    /\ n # NULL
                    /\ n \in DOMAIN tn <=> i <= had
              /\ \A n \in DOMAIN tn : n \in live'
              /\ \A e \in DOMAIN avl :
                    /\ e \in live'
                    /\ avl'[e].key = avl[e].key /\ avl'[e].child = avl[e].child
              /\ \A K2 \in WideKeys \ {K} :
                    LET n  == NodeAt(root, K2, 1)
                        n2 == NodeIn(tn', avl', root, K2, 1)
                    IN  IF n # NULL
                        THEN /\ n2 = n
                             /\ tn'[n].terminal = tn[n].terminal
                             /\ tn'[n].p = tn[n].p
                             /\ tn[n].p # NULL =>
                                   /\ tn[n].p \in live' /\ ph'[tn[n].p] = ph[tn[n].p]
                                   /\ ph[tn[n].p].meta # NULL =>
                                         /\ ph[tn[n].p].meta \in live'
                                         /\ str'[ph[tn[n].p].meta] = str[ph[tn[n].p].meta]
                        ELSE n2 = NULL \/ (tn'[n2].terminal = 0 /\ tn'[n2].p = NULL)
    ]_vars

\* C13 witness: the third insert added a third entry to a child set below
\* the root (which rotated: its top entry is the second symbol inserted),
\* under a first symbol whose node already existed, so it created exactly
\* one node; the other two keys are still stored.
C13_Witness ==
    /\ Len(hist) = 3 /\ pc = "run"
    /\ \A i \in 1..3 : hist[i].op = "insert" /\ Len(hist[i].key) = 2
    /\ hist[1].key[1] = hist[2].key[1] /\ hist[2].key[1] = hist[3].key[1]
    /\ Cardinality(DOMAIN tn) = 5 /\ Cardinality(DOMAIN avl) = 4
    /\ LET n == NodeAt(root, <<hist[1].key[1]>>, 1) IN
       /\ avl[tn[n].children].key = hist[2].key[2]
       /\ avl[tn[n].children].key # hist[1].key[2]
       /\ avl[tn[n].children].height = 2
    /\ \A i \in 1..3 : tn[NodeAt(root, hist[i].key, 1)].terminal # 0

\* The symbols of the child set rooted at rt, in the order of an in-order
\* walk (left subtree, entry, right subtree).
RECURSIVE InorderKeys(_)
InorderKeys(rt) ==
    IF rt = NULL THEN <<>>
    ELSE InorderKeys(avl[rt].left) \o <<avl[rt].key>> \o InorderKeys(avl[rt].right)

\* C14: between calls every child set is a binary search tree (every entry
\* of a left subtree has a smaller symbol than the entry above it, every
\* entry of a right subtree a larger one) with pairwise distinct symbols,
\* its in-order walk is strictly ascending, and avl_find_child finds, with
\* the right symbol, every symbol of every key inserted so far in the child
\* set of the node before it; and every enumeration has visited the keys in
\* strictly ascending order, once per inserted key.
C14_ChildSetOrdered ==
    /\ pc = "run" =>
          /\ \A n \in Nodes(root) :
                LET E == Entries(tn[n].children)
                    w == InorderKeys(tn[n].children)
                IN  /\ \A e \in E :
                          /\ \A x \in Entries(avl[e].left) : avl[x].key < avl[e].key
                          /\ \A x \in Entries(avl[e].right) : avl[x].key > avl[e].key
                    /\ \A e1 \in E, e2 \in E : e1 # e2 => avl[e1].key # avl[e2].key
                    /\ Len(w) = Cardinality(E)
                    /\ \A x \in 1..(Len(w) - 1) : w[x] < w[x + 1]
          /\ \A j \in 1..Len(hist) :
                (hist[j].op = "insert" /\ hist[j].st = "ok") =>
                    \A i \in 1..Len(hist[j].key) :
                        LET above == NodeAt(root, SubSeq(hist[j].key, 1, i - 1), 1)
                            sym   == hist[j].key[i]
                        IN  /\ above # NULL
                            /\ avl_find_child([avl |-> avl], tn[above].children, sym) # NULL
                            /\ avl[avl_find_child([avl |-> avl], tn[above].children,
                                                  sym)].key = sym
    /\ \A i \in 1..Len(hist) :
          (hist[i].op = "enumerate" /\ hist[i].st = "ok") =>
              /\ Len(hist[i].emit) = Cardinality(InsertedKeys(i))
              /\ \A x \in 1..(Len(hist[i].emit) - 1) :
                    LexLess(hist[i].emit[x].token, hist[i].emit[x + 1].token)

\* C14 witness: six distinct symbols were inserted under the root, the third
\* one between the first two (a double rotation), the sixth one smaller than
\* all others or larger than all others, and the enumeration visited all six.
C14_Witness ==
    /\ Len(hist) = 7 /\ hist[7].op = "enumerate" /\ hist[7].st = "ok"
    /\ Len(hist[7].emit) = 6
    /\ \/ hist[1].key[1] < hist[3].key[1] /\ hist[3].key[1] < hist[2].key[1]
       \/ hist[2].key[1] < hist[3].key[1] /\ hist[3].key[1] < hist[1].key[1]
    /\ hist[6].key[1] \in {1, NAvlSym}
    /\ Cardinality(Entries(tn[root].children)) = 6

\* The blocks of node n's payload: the Phenotype and its text.
PayloadBlocks(n) ==
    IF tn[n].p = NULL THEN {}
    ELSE {tn[n].p} \cup (IF ph[tn[n].p].meta = NULL THEN {} ELSE {ph[tn[n].p].meta})
\* Every block of the subtrees below node n: the descendants' trie nodes,
\* child-set entries and payloads.
Below(n) ==
    UNION {{d} \cup Entries(tn[d].children) \cup PayloadBlocks(d) :
           d \in Nodes(n) \ {n}}
\* The blocks released so far, and the place of a block in the free log.
Released == {freed[i] : i \in 1..Len(freed)}
Pos(a) == CHOOSE i \in 1..Len(freed) : freed[i] = a

\* C15: trie_free makes no access to a released block, and for every trie
\* node it releases every block of the subtrees below the node, then the
\* node's child-set entries, then the node's payload (the text, then the
\* Phenotype), then the node.
C15_DestroyOrder ==
    (Len(hist) > 0 /\ hist[Len(hist)].op = "free") =>
        /\ hist[Len(hist)].st = "ok"
        /\ \A n \in Nodes(root) :
              LET E == Entries(tn[n].children) IN
              /\ Below(n) \cup E \cup PayloadBlocks(n) \cup {n} \subseteq Released
              /\ \A a \in Below(n), e \in E : Pos(a) < Pos(e)
              /\ \A e \in E, b \in PayloadBlocks(n) : Pos(e) < Pos(b)
              /\ \A e \in E : Pos(e) < Pos(n)
              /\ \A b \in PayloadBlocks(n) : Pos(b) < Pos(n)
              /\ (tn[n].p # NULL /\ ph[tn[n].p].meta # NULL) =>
                    Pos(ph[tn[n].p].meta) < Pos(tn[n].p)

\* C15 witness: trie_free destroyed a trie in which the root, a node below
\* it and a node below that one each had a payload with a text.
C15_Witness ==
    /\ Len(hist) > 0 /\ hist[Len(hist)].op = "free" /\ hist[Len(hist)].st = "ok"
    /\ Cardinality(PayloadBlocks(root)) = 2
    /\ \E n \in Nodes(root) \ {root} :
          /\ Cardinality(PayloadBlocks(n)) = 2
          /\ \E d \in Nodes(n) \ {n} : Cardinality(PayloadBlocks(d)) = 2
    /\ live = {}

\* What the callback was shown: (token, score, visits, flags, meta) per call.
Report(e) ==
    [x \in 1..Len(e) |->
        <<e[x].token, e[x].pay.score, e[x].pay.visits, e[x].pay.qual, e[x].pay.meta>>]

\* C16: an enumeration that returns changes no trie node, no child-set
\* entry, no payload and no text; it reports every key with visits equal to
\* the number of successful lookups of the key (0 for a key never looked
\* up); and an enumeration that directly follows another one reports the
\* same sequence.
C16_EnumerateReadOnly ==
    [][(hist' # hist /\ NewCall.op = "enumerate" /\ NewCall.st = "ok") =>
          /\ tn' = tn /\ avl' = avl /\ ph' = ph /\ str' = str
          /\ \A x \in 1..Len(NewCall.emit) :
                NewCall.emit[x].pay.visits = FoundLookups(Len(hist), NewCall.emit[x].token)
          /\ (/\ Len(hist) > 0 /\ hist[Len(hist)].op = "enumerate"
              /\ hist[Len(hist)].st = "ok") =>
                Report(NewCall.emit) = Report(hist[Len(hist)].emit)
    ]_vars

\* C16 witness: two enumerations in a row reported two keys each, one looked
\* up once and one never looked up.
C16_Witness ==
    /\ Len(hist) = 5 /\ pc = "run"
    /\ hist[3].op = "lookup" /\ hist[3].res.found
    /\ hist[4].op = "enumerate" /\ hist[4].st = "ok"
    /\ hist[5].op = "enumerate" /\ hist[5].st = "ok"
    /\ Len(hist[5].emit) = 2
    /\ {hist[5].emit[x].pay.visits : x \in 1..2} = {0, 1}
    /\ Report(hist[4].emit) = Report(hist[5].emit)

====
